---- MODULE Spec2Model ----
(***************************************************************************)
(* Model of dash.py, the rental-listing dashboard.                         *)
(*                                                                         *)
(* The script is re-run from top to bottom after every widget change.  The *)
(* state is the cached listing table, the value every sidebar widget       *)
(* holds, and what the last run of the script computed and displayed.      *)
(* One action per widget interaction; each action changes one widget and   *)
(* then runs the whole script (Script) on the new widget values.           *)
(*                                                                         *)
(* Numbers are integers.  A mean is kept exact as [sum, n] (n = 0 is the   *)
(* NaN of a mean over no rows), a ratio as [num, den].  A neighbourhood is *)
(* an integer standing for its name, ordered as the names are.             *)
(***************************************************************************)
EXTENDS Integers, Sequences, FiniteSets, TLC

VARIABLES
    df,                   \* the table load_data() returns (cached)
    bairros,              \* multiselect 'Selecione os Bairros'
    min_entered,          \* what the 'Minimo' number_input holds
    max_valor,            \* what the 'Maximo' number_input holds
    quartos,              \* multiselect 'No de Quartos'
    possui_suite,         \* radio 'Possui Suite?'
    vagas,                \* multiselect 'Vagas de Garagem'
    min_valor,            \* the script's min_valor after line 73
    df_filtered,          \* the script's df_filtered when the run ends
    messages,             \* st.warning / st.info texts shown by the run
    metrics,              \* <<>> or <<the four KPI values>>
    bairros_media,        \* <<>> or the ranking series of chart 1
    media_por_tamanho,    \* <<>> or mean price per size bucket (chart 2)
    contagem_por_tamanho, \* <<>> or listings per size bucket
    contagem,             \* <<>> or listings per price bucket (chart 3)
    dados,                \* <<>> or <<means with / without suite>> (chart 4)
    detalhes,             \* <<>> or the rows of 'Dados Detalhados'
    csv                   \* <<>> or <<the text given to download_button>>

vars == <<df, bairros, min_entered, max_valor, quartos, possui_suite, vagas,
          min_valor, df_filtered, messages, metrics, bairros_media,
          media_por_tamanho, contagem_por_tamanho, contagem, dados,
          detalhes, csv>>

-----------------------------------------------------------------------------
(* Bounds of the model *)

MaxRows == 3       \* rows of a small table
MaxBairros == 11   \* neighbourhoods of a ranking table

-----------------------------------------------------------------------------
(* Data frames: columns in order, the pandas index, one record per row *)

BaseColumns == <<"Bairro", "Valor", "Valor_por_mes", "Area", "Quartos",
                 "Suites", "Vagas", "Condominio">>

Range(s) == {s[i] : i \in 1..Len(s)}

\* The same sequence, and the same record, with every element computed at
\* once (a function written [i \in S |-> e] computes e again at every use).
Built(s) == SubSeq(s, 1, Len(s))
BuiltRow(r) == r @@ <<>>

Frame(columns, index, rows) ==
    [columns |-> columns, index |-> index, rows |-> rows]

EmptyFrame == Frame(BaseColumns, <<>>, <<>>)

Listing(b, v, a, q, s, g, c) ==
    [Bairro |-> b, Valor |-> v, Valor_por_mes |-> v + c, Area |-> a,
     Quartos |-> q, Suites |-> s, Vagas |-> g, Condominio |-> c]

\* positions of a sequence whose element is kept, in order
RECURSIVE KeptFrom(_, _, _)
KeptFrom(keep, i, n) ==
    IF i > n THEN <<>>
    ELSE IF keep[i] THEN <<i>> \o KeptFrom(keep, i + 1, n)
    ELSE KeptFrom(keep, i + 1, n)

\* the rows of a frame at the given positions
Take(frame, kept) ==
    Frame(frame.columns,
          Built([k \in 1..Len(kept) |-> frame.index[kept[k]]]),
          Built([k \in 1..Len(kept) |-> frame.rows[kept[k]]]))

\* faulty variant: the mask is applied from the second row on
BoolIndexSkipFirst(frame, mask) ==
    Take(frame, KeptFrom(mask, 2, Len(frame.rows)))

\* frame[mask]: boolean indexing always builds a new frame
BoolIndex(frame, mask) == Take(frame, KeptFrom(mask, 1, Len(frame.rows)))

Column(frame, col) ==
    Built([i \in 1..Len(frame.rows) |-> frame.rows[i][col]])

Unique(frame, col) == Range(Column(frame, col))

RECURSIVE SumSeq(_)
SumSeq(s) == IF s = <<>> THEN 0 ELSE Head(s) + SumSeq(Tail(s))

\* Series.mean(): exact, n = 0 when there is no row (NaN)
Mean(s) == [sum |-> SumSeq(s), n |-> Len(s)]

IsNaN(m) == m.n = 0

SetMax(S) == CHOOSE x \in S : \A y \in S : y <= x
SetMin(S) == CHOOSE x \in S : \A y \in S : x <= y

-----------------------------------------------------------------------------
(* The script's objects.  A program state is a heap of two frames, o0 the  *)
(* cached table and o1 the working frame, and ref, the object that the     *)
(* name df_filtered is bound to.                                           *)

Prog(heap, ref) == [heap |-> heap, ref |-> ref]

Current(p) == p.heap[p.ref]

\* df_filtered = df_filtered[mask]
Rebind(p, mask) ==
    Prog([p.heap EXCEPT !["o1"] = BoolIndex(Current(p), mask)], "o1")

\* df_filtered = df.copy()
Copy(p) == Prog([p.heap EXCEPT !["o1"] = p.heap["o0"]], "o1")

FilterBairro(p, sel) ==
    IF sel # {}
    THEN Rebind(p, Built([i \in 1..Len(Current(p).rows) |->
                              Current(p).rows[i].Bairro \in sel]))
    ELSE p

FilterQuartos(p, sel) ==
    IF sel # {}
    THEN Rebind(p, Built([i \in 1..Len(Current(p).rows) |->
                              Current(p).rows[i].Quartos \in sel]))
    ELSE p

FilterSuite(p, choice) ==
    IF choice # "Todos"
    THEN Rebind(p, Built([i \in 1..Len(Current(p).rows) |->
                              Current(p).rows[i].Suites
                                  = (IF choice = "Sim" THEN 1 ELSE 0)]))
    ELSE p

FilterVagas(p, sel) ==
    IF sel # {}
    THEN Rebind(p, Built([i \in 1..Len(Current(p).rows) |->
                              Current(p).rows[i].Vagas \in sel]))
    ELSE p

\* faulty variant: the lower end of the price range is exclusive
FilterValorStrict(p, lo, hi) ==
    Rebind(p, Built([i \in 1..Len(Current(p).rows) |->
                         Current(p).rows[i].Valor > lo
                         /\ Current(p).rows[i].Valor <= hi]))

FilterValor(p, lo, hi) ==
    Rebind(p, Built([i \in 1..Len(Current(p).rows) |->
                         Current(p).rows[i].Valor >= lo
                         /\ Current(p).rows[i].Valor <= hi]))

\* lines 98-116
ApplyFilters(p, w, lo, hi) ==
    FilterValor(
        FilterVagas(
            FilterSuite(
                FilterQuartos(
                    FilterBairro(Copy(p), w.bairros),
                    w.quartos),
                w.possui_suite),
            w.vagas),
        lo, hi)

\* faulty variant: warns, but goes on with the minimum as entered
ClampMinKept(lo, hi) ==
    IF lo > hi
    THEN [min_valor |-> lo, warned |-> TRUE]
    ELSE [min_valor |-> lo, warned |-> FALSE]

\* lines 70-73: the minimum the script goes on with, and whether it warned
ClampMin(lo, hi) ==
    IF lo > hi
    THEN [min_valor |-> hi - 1, warned |-> TRUE]
    ELSE [min_valor |-> lo, warned |-> FALSE]

-----------------------------------------------------------------------------
(* KPI cards, lines 124-127 *)

\* faulty variant: divides whenever the total area is not negative
PrecoMedioM2Unguarded(frame) ==
    IF SumSeq(Column(frame, "Area")) >= 0
    THEN [num |-> SumSeq(Column(frame, "Valor")),
          den |-> SumSeq(Column(frame, "Area"))]
    ELSE [num |-> 0, den |-> 1]

\* line 126
PrecoMedioM2(frame) ==
    IF SumSeq(Column(frame, "Area")) > 0
    THEN [num |-> SumSeq(Column(frame, "Valor")),
          den |-> SumSeq(Column(frame, "Area"))]
    ELSE [num |-> 0, den |-> 1]

Metrics(frame) ==
    [media_aluguel      |-> Mean(Column(frame, "Valor")),
     media_custo_mensal |-> Mean(Column(frame, "Valor_por_mes")),
     preco_medio_m2     |-> PrecoMedioM2(frame),
     total_ofertas      |-> Len(frame.rows)]

-----------------------------------------------------------------------------
(* Sorting.  An item carries the exact value sum / n it is ordered by.     *)
(* sort_values() is ascending; numpy sorts the short arrays of the model   *)
(* by insertion, which keeps equal values in their former order.           *)

Leq(a, b) == a.sum * b.n <= b.sum * a.n

RECURSIVE Insert(_, _)
Insert(sorted, x) ==
    IF sorted = <<>> THEN <<x>>
    ELSE IF Leq(sorted[Len(sorted)], x) THEN Append(sorted, x)
    ELSE Append(Insert(SubSeq(sorted, 1, Len(sorted) - 1), x),
                sorted[Len(sorted)])

RECURSIVE SortValues(_)
SortValues(s) ==
    IF s = <<>> THEN <<>>
    ELSE Insert(SortValues(SubSeq(s, 1, Len(s) - 1)), s[Len(s)])

\* Series.tail(n)
TailN(s, n) == IF Len(s) <= n THEN s ELSE SubSeq(s, Len(s) - n + 1, Len(s))

RECURSIVE SortedKeys(_)
SortedKeys(S) ==
    IF S = {} THEN <<>> ELSE <<SetMin(S)>> \o SortedKeys(S \ {SetMin(S)})

-----------------------------------------------------------------------------
(* Chart 1, lines 151-152 *)

TopN == 10

\* frame[frame[col] == v]['Valor']
ValoresOnde(frame, col, v) ==
    Column(BoolIndex(frame, Built([i \in 1..Len(frame.rows) |->
                                      frame.rows[i][col] = v])),
           "Valor")

\* one entry of a grouped mean: the group's key and the mean of its values
Group(key, vals) == [key |-> key, sum |-> SumSeq(vals), n |-> Len(vals)]

GroupMean(frame, col, keys) ==
    Built([k \in 1..Len(keys) |->
              Group(keys[k], ValoresOnde(frame, col, keys[k]))])

\* df_filtered.groupby('Bairro')['Valor'].mean(): one entry per key, keys sorted
GroupMeanBairro(frame) ==
    GroupMean(frame, "Bairro", SortedKeys(Unique(frame, "Bairro")))

\* faulty variant: head(10) instead of tail(10)
RankingBairrosHead(frame) ==
    SubSeq(SortValues(GroupMeanBairro(frame)), 1,
           IF Len(GroupMeanBairro(frame)) <= TopN
           THEN Len(GroupMeanBairro(frame)) ELSE TopN)

RankingBairros(frame) == TailN(SortValues(GroupMeanBairro(frame)), TopN)

HasRanking(frame) == Cardinality(Unique(frame, "Bairro")) > 1

-----------------------------------------------------------------------------
(* Buckets, lines 191-195 and 251-255.  The last bin is open to infinity.  *)

SizeEdges == <<0, 50, 70, 90, 120>>
SizeLabels == <<"Ate 50m2", "51-70m2", "71-90m2", "91-120m2", "Acima de 120m2">>

PriceEdges == <<0, 1000, 2000, 3000, 4000, 5000>>
PriceLabels == <<"Ate R$1.000", "R$1.001-2.000", "R$2.001-3.000",
                 "R$3.001-4.000", "R$4.001-5.000", "Acima de R$5.000">>

NaN == "NaN"

\* pd.cut(x, bins=edges + [inf], labels=labels): right-closed bins (a, b]
Cut(x, edges, labels) ==
    IF x <= edges[1] THEN NaN
    ELSE IF x > edges[Len(edges)] THEN labels[Len(edges)]
    ELSE labels[CHOOSE i \in 1..(Len(edges) - 1) :
                    edges[i] < x /\ x <= edges[i + 1]]

CutColumn(frame, col, edges, labels) ==
    Built([i \in 1..Len(frame.rows) |->
              Cut(frame.rows[i][col], edges, labels)])

AddColumn(frame, col, vals) ==
    Frame(IF col \in Range(frame.columns) THEN frame.columns
          ELSE Append(frame.columns, col),
          frame.index,
          Built([i \in 1..Len(frame.rows) |->
              BuiltRow([c \in DOMAIN frame.rows[i] \cup {col} |->
                           IF c = col THEN vals[i] ELSE frame.rows[i][c]])]))

\* faulty variant: df[col] = vals, the column is written into the cached table
SetColumnOnCache(p, col, vals) ==
    Prog([p.heap EXCEPT
              !["o0"] = AddColumn(@, col,
                  [j \in 1..Len(@.rows) |->
                      IF @.index[j] \in Range(Current(p).index)
                      THEN vals[CHOOSE i \in 1..Len(vals) :
                                    Current(p).index[i] = @.index[j]]
                      ELSE NaN]),
              ![p.ref] = AddColumn(@, col, vals)], p.ref)

\* df_filtered[col] = vals: writes into the object df_filtered is bound to
SetColumn(p, col, vals) ==
    Prog([p.heap EXCEPT ![p.ref] = AddColumn(@, col, vals)], p.ref)

\* value_counts().sort_index() of a categorical: every label, NaN dropped
ValueCounts(frame, col, labels) ==
    Built([k \in 1..Len(labels) |->
              [label |-> labels[k],
               count |-> Cardinality({i \in 1..Len(frame.rows) :
                                          frame.rows[i][col] = labels[k]})]])

\* groupby('Faixa de Tamanho')['Valor'].mean(): every label, NaN when unobserved
GroupMeanLabel(frame, col, labels) == GroupMean(frame, col, labels)

-----------------------------------------------------------------------------
(* Chart 4, lines 278-308 *)

\* faulty variant: len(unique) >= 1
HasSuiteComparisonAny(frame) ==
    "Suites" \in Range(frame.columns)
    /\ Cardinality(Unique(frame, "Suites")) >= 1

HasSuiteComparison(frame) ==
    "Suites" \in Range(frame.columns)
    /\ Cardinality(Unique(frame, "Suites")) > 1

SuiteComparison(frame) ==
    [media_com_suite |-> Mean(ValoresOnde(frame, "Suites", 1)),
     media_sem_suite |-> Mean(ValoresOnde(frame, "Suites", 0))]

-----------------------------------------------------------------------------
(* Detail table, line 313 *)

DetailColumns == <<"Bairro", "Quartos", "Vagas", "Area", "Valor",
                   "Condominio", "Valor_por_mes">>

Keys(items) == Built([i \in 1..Len(items) |-> items[i].key])

\* df_filtered[DetailColumns].sort_values('Valor')
Detail(frame) ==
    Keys(SortValues(Built([i \in 1..Len(frame.rows) |->
                              [key |-> BuiltRow([c \in Range(DetailColumns) |->
                                                    frame.rows[i][c]]),
                               sum |-> frame.rows[i].Valor, n |-> 1]])))

-----------------------------------------------------------------------------
(* CSV text, lines 20 and 327.  A cell is its characters; fields are split *)
(* by ';'.  A number is written in decimal digits, a bucket by its label,  *)
(* a missing value as the empty cell.                                      *)

DigitChars == <<"0", "1", "2", "3", "4", "5", "6", "7", "8", "9">>

RECURSIVE Digits(_)
Digits(n) ==
    IF n < 10 THEN <<DigitChars[n + 1]>>
    ELSE Append(Digits(n \div 10), DigitChars[(n % 10) + 1])

FormatCell(col, v) ==
    IF col \in Range(BaseColumns) THEN Digits(v)
    ELSE IF v = NaN THEN <<>>
    ELSE <<v>>

\* df_filtered.to_csv(index=False, sep=';', decimal=',')
ToCsv(frame) ==
    [header |-> frame.columns,
     lines |-> Built([i \in 1..Len(frame.rows) |->
                   Built([k \in 1..Len(frame.columns) |->
                             FormatCell(frame.columns[k],
                                        frame.rows[i][frame.columns[k]])])])]

DigitValue(ch) == (CHOOSE d \in 1..10 : DigitChars[d] = ch) - 1

RECURSIVE Number(_)
Number(cell) ==
    IF Len(cell) = 1 THEN DigitValue(cell[1])
    ELSE 10 * Number(SubSeq(cell, 1, Len(cell) - 1)) + DigitValue(cell[Len(cell)])

ParseCell(cell) ==
    IF cell = <<>> THEN NaN
    ELSE IF \A k \in 1..Len(cell) : cell[k] \in Range(DigitChars)
         THEN Number(cell)
    ELSE cell[1]

\* pd.read_csv(text, sep=';'): one record per line, keyed by the header
ReadCsv(text) ==
    Built([i \in 1..Len(text.lines) |->
        BuiltRow([c \in Range(text.header) |->
            ParseCell(text.lines[i][CHOOSE k \in 1..Len(text.header) :
                                        text.header[k] = c])])])

-----------------------------------------------------------------------------
(* One run of the script, top to bottom *)

WarnMinMax == "O valor minimo nao pode ser maior que o maximo."
InfoRanking == "Selecione mais de um bairro para ver o ranking."
InfoSuite == "Selecione imoveis com e sem suite para ver a comparacao."
WarnEmpty == "Nenhum imovel encontrado com os filtros selecionados."

\* faulty variant: a single row counts as empty too
EmptyOrSingle(frame) == Len(frame.rows) <= 1 \/ Len(frame.columns) = 0

\* DataFrame.empty
Empty(frame) == Len(frame.rows) = 0 \/ Len(frame.columns) = 0

Widgets(b, lo, hi, q, s, g) ==
    [bairros |-> b, min |-> lo, max |-> hi, quartos |-> q,
     possui_suite |-> s, vagas |-> g]

\* the value every widget has before the user touches it, lines 35-96
Defaults(cache) ==
    Widgets({}, SetMin(Unique(cache, "Valor")), SetMax(Unique(cache, "Valor")),
            Unique(cache, "Quartos"), "Todos", Unique(cache, "Vagas"))

\* lines 334-335: nothing matched
NoResults(p, clamp) ==
    [df |-> p.heap["o0"],
     min_valor |-> clamp.min_valor,
     df_filtered |-> Current(p),
     messages |-> (IF clamp.warned THEN {WarnMinMax} ELSE {}) \cup {WarnEmpty},
     metrics |-> <<>>, bairros_media |-> <<>>, media_por_tamanho |-> <<>>,
     contagem_por_tamanho |-> <<>>, contagem |-> <<>>, dados |-> <<>>,
     detalhes |-> <<>>, csv |-> <<>>]

\* lines 251-333: f2 is df_filtered with its size bucket, p3 the program
\* after the price bucket was attached
Charts34(f1, f2, p3, clamp) ==
    [df |-> p3.heap["o0"],
     min_valor |-> clamp.min_valor,
     df_filtered |-> Current(p3),
     messages |->
         (IF clamp.warned THEN {WarnMinMax} ELSE {})
         \cup (IF HasRanking(f1) THEN {} ELSE {InfoRanking})
         \cup (IF HasSuiteComparison(Current(p3)) THEN {} ELSE {InfoSuite}),
     metrics |-> <<Metrics(f1)>>,
     bairros_media |-> IF HasRanking(f1) THEN RankingBairros(f1) ELSE <<>>,
     media_por_tamanho |-> GroupMeanLabel(f2, "Faixa de Tamanho", SizeLabels),
     contagem_por_tamanho |-> ValueCounts(f2, "Faixa de Tamanho", SizeLabels),
     contagem |-> ValueCounts(Current(p3), "Faixa_Preco", PriceLabels),
     dados |-> IF HasSuiteComparison(Current(p3))
               THEN <<SuiteComparison(Current(p3))>> ELSE <<>>,
     detalhes |-> Detail(Current(p3)),
     csv |-> <<ToCsv(Current(p3))>>]

\* lines 191-254: p2 is the program after the size bucket was attached
Charts2(f1, p2, clamp) ==
    Charts34(f1, Current(p2),
             SetColumn(p2, "Faixa_Preco",
                       CutColumn(Current(p2), "Valor", PriceEdges, PriceLabels)),
             clamp)

\* lines 122-335: p1 is the program after the filters
Display(p1, clamp) ==
    IF ~Empty(Current(p1))
    THEN Charts2(Current(p1),
                 SetColumn(p1, "Faixa de Tamanho",
                           CutColumn(Current(p1), "Area", SizeEdges, SizeLabels)),
                 clamp)
    ELSE NoResults(p1, clamp)

Filtered(cache, w, clamp) ==
    Display(ApplyFilters(Prog([o0 |-> cache, o1 |-> EmptyFrame], "o0"),
                         w, clamp.min_valor, w.max),
            clamp)

Script(cache, w) == Filtered(cache, w, ClampMin(w.min, w.max))

-----------------------------------------------------------------------------
(* Tables the dashboard is started on *)

\* pd.read_csv: base columns, RangeIndex
LoadFrame(rows) ==
    Frame(BaseColumns, Built([i \in 1..Len(rows) |-> i - 1]), Built(rows))

\*                 Bairro Valor Area Quartos Suites Vagas Condominio
SmallPool == <<Listing(1, 1000,  50, 1, 0, 1, 200),
               Listing(2, 3000, 100, 2, 1, 1, 500),
               Listing(2,    0,   0, 1, 1, 0,   0),
               Listing(3, 3000, 130, 2, 0, 0, 300)>>

SmallTables ==
    {LoadFrame([k \in 1..Cardinality(S) |-> SmallPool[SortedKeys(S)[k]]]) :
        S \in {T \in SUBSET (1..Len(SmallPool)) :
                  T # {} /\ Cardinality(T) <= MaxRows}}

\* n neighbourhoods, some with equal means, two of them with two listings
RankRows(n, k) ==
    [i \in 1..(n + 2) |->
        IF i <= n
        THEN Listing(i, IF (i + k) % 3 = 0 THEN 3000 ELSE 1000, 50, 1, 0, 1, 0)
        ELSE Listing(i - n, IF i = n + 1 THEN 3000 ELSE 0, 50, 1, 0, 1, 0)]

RankTables == {LoadFrame(RankRows(MaxBairros, k)) : k \in {0, 1}}

\* prices a user types: within [0, max Valor], lines 53-68
PriceChoices(cache) ==
    {v \in {0, 1000, 3000} \cup Unique(cache, "Valor") :
        v <= SetMax(Unique(cache, "Valor"))}

-----------------------------------------------------------------------------
(* State machine *)

Start(table) ==
    \E w \in {Defaults(table)} : \E r \in {Script(table, w)} :
       /\ df = r.df
       /\ bairros = w.bairros
       /\ min_entered = w.min
       /\ max_valor = w.max
       /\ quartos = w.quartos
       /\ possui_suite = w.possui_suite
       /\ vagas = w.vagas
       /\ min_valor = r.min_valor
       /\ df_filtered = r.df_filtered
       /\ messages = r.messages
       /\ metrics = r.metrics
       /\ bairros_media = r.bairros_media
       /\ media_por_tamanho = r.media_por_tamanho
       /\ contagem_por_tamanho = r.contagem_por_tamanho
       /\ contagem = r.contagem
       /\ dados = r.dados
       /\ detalhes = r.detalhes
       /\ csv = r.csv

Init == \E table \in SmallTables : Start(table)

InitRank == \E table \in RankTables : Start(table)

Rerun(w) ==
    \E r \in {Script(df, w)} :
       /\ df' = r.df
       /\ bairros' = w.bairros
       /\ min_entered' = w.min
       /\ max_valor' = w.max
       /\ quartos' = w.quartos
       /\ possui_suite' = w.possui_suite
       /\ vagas' = w.vagas
       /\ min_valor' = r.min_valor
       /\ df_filtered' = r.df_filtered
       /\ messages' = r.messages
       /\ metrics' = r.metrics
       /\ bairros_media' = r.bairros_media
       /\ media_por_tamanho' = r.media_por_tamanho
       /\ contagem_por_tamanho' = r.contagem_por_tamanho
       /\ contagem' = r.contagem
       /\ dados' = r.dados
       /\ detalhes' = r.detalhes
       /\ csv' = r.csv

Toggle(S, x) == IF x \in S THEN S \ {x} ELSE S \cup {x}

SelectBairro(b) ==
    /\ b \in Unique(df, "Bairro")
    /\ Rerun(Widgets(Toggle(bairros, b), min_entered, max_valor, quartos,
                     possui_suite, vagas))

EnterMinimo(v) ==
    /\ v \in PriceChoices(df)
    /\ v # min_entered
    /\ Rerun(Widgets(bairros, v, max_valor, quartos, possui_suite, vagas))

EnterMaximo(v) ==
    /\ v \in PriceChoices(df)
    /\ v # max_valor
    /\ Rerun(Widgets(bairros, min_entered, v, quartos, possui_suite, vagas))

SelectQuartos(q) ==
    /\ q \in Unique(df, "Quartos")
    /\ Rerun(Widgets(bairros, min_entered, max_valor, Toggle(quartos, q),
                     possui_suite, vagas))

ChooseSuite(s) ==
    /\ s \in {"Todos", "Sim", "Nao"}
    /\ s # possui_suite
    /\ Rerun(Widgets(bairros, min_entered, max_valor, quartos, s, vagas))

SelectVagas(g) ==
    /\ g \in Unique(df, "Vagas")
    /\ Rerun(Widgets(bairros, min_entered, max_valor, quartos, possui_suite,
                     Toggle(vagas, g)))

Next ==
    \/ \E b \in Unique(df, "Bairro") : SelectBairro(b)
    \/ \E v \in PriceChoices(df) : EnterMinimo(v)
    \/ \E v \in PriceChoices(df) : EnterMaximo(v)
    \/ \E q \in Unique(df, "Quartos") : SelectQuartos(q)
    \/ \E s \in {"Todos", "Sim", "Nao"} : ChooseSuite(s)
    \/ \E g \in Unique(df, "Vagas") : SelectVagas(g)

Spec == Init /\ [][Next]_vars

\* a user who works the neighbourhood selector only
NextRank == \E b \in Unique(df, "Bairro") : SelectBairro(b)

SpecRank == InitRank /\ [][NextRank]_vars

-----------------------------------------------------------------------------
(* Properties *)

BaseOf(row) == BuiltRow([c \in Range(BaseColumns) |-> row[c]])

\* the listings of a frame, without any column the script attached
Listings(frame) == Built([i \in 1..Len(frame.rows) |-> BaseOf(frame.rows[i])])

InPrice(r, lo, hi) == lo <= r.Valor /\ r.Valor <= hi

\* the filter contract of a listing r under criteria w, lo, hi
Satisfies(r, w, lo, hi) ==
    /\ w.bairros # {} => r.Bairro \in w.bairros
    /\ w.quartos # {} => r.Quartos \in w.quartos
    /\ w.possui_suite # "Todos"
           => r.Suites = (IF w.possui_suite = "Sim" THEN 1 ELSE 0)
    /\ w.vagas # {} => r.Vagas \in w.vagas
    /\ InPrice(r, lo, hi)

Expected(table, w, lo, hi) ==
    SelectSeq(table.rows, LAMBDA r : Satisfies(r, w, lo, hi))

Criteria ==
    Widgets(bairros, min_entered, max_valor, quartos, possui_suite, vagas)

Shown == Len(df_filtered.rows) > 0

SumOf(frame, col) == SumSeq(Column(frame, col))

\* C1: the filtered set is exactly the listings of the table that satisfy
\* every active selector and min <= Valor <= max; with no selector active it
\* is exactly the listings in the price range.
C1_FilterIsConjunction ==
    /\ Listings(df_filtered) = Expected(df, Criteria, min_valor, max_valor)
    /\ (bairros = {} /\ quartos = {} /\ vagas = {} /\ possui_suite = "Todos")
           => Listings(df_filtered)
                  = SelectSeq(df.rows,
                              LAMBDA r : InPrice(r, min_valor, max_valor))

C1_Witness ==
    /\ bairros # {} /\ quartos # {} /\ vagas # {} /\ possui_suite # "Todos"
    /\ 0 < Len(df_filtered.rows)
    /\ Len(df_filtered.rows) < Len(df.rows)

\* C2: with min > max entered the run warns, goes on with min = max - 1 and
\* completes; with min <= max it leaves the inputs alone and does not warn;
\* the price mask is always applied with min <= max.
C2_ClampMinAboveMax ==
    /\ min_entered > max_valor
           => WarnMinMax \in messages /\ min_valor = max_valor - 1
    /\ min_entered <= max_valor
           => WarnMinMax \notin messages /\ min_valor = min_entered
    /\ min_valor <= max_valor
    /\ \A i \in 1..Len(df_filtered.rows) :
           InPrice(df_filtered.rows[i], min_valor, max_valor)
    /\ (metrics # <<>>) \/ (WarnEmpty \in messages)

C2_Witness ==
    min_entered > max_valor /\ max_valor = 0 /\ min_valor = -1 /\ Shown

\* C3: an empty filtered set shows the no-listings message and nothing else
\* (no KPI, chart, bucket, table or export); a non-empty one shows the KPIs
\* and not the message.
C3_EmptyResult ==
    /\ ~Shown =>
           /\ WarnEmpty \in messages
           /\ metrics = <<>> /\ bairros_media = <<>>
           /\ media_por_tamanho = <<>> /\ contagem_por_tamanho = <<>>
           /\ contagem = <<>> /\ dados = <<>> /\ detalhes = <<>>
           /\ csv = <<>>
           /\ df_filtered.columns = BaseColumns
           /\ messages \subseteq {WarnEmpty, WarnMinMax}
    /\ Shown =>
           /\ WarnEmpty \notin messages
           /\ metrics # <<>>
           /\ metrics[1].total_ofertas = Len(df_filtered.rows)

C3_Witness == ~Shown /\ WarnEmpty \in messages /\ bairros # {}

TotalCount(counts) == SumSeq([k \in 1..Len(counts) |-> counts[k].count])

\* C4: every listing of a non-empty filtered set is in exactly one size
\* bucket and one price bucket, so each scheme's counts add up to the number
\* of listings.
C4_BucketsExhaustive ==
    Shown =>
        /\ \A i \in 1..Len(df_filtered.rows) :
               /\ df_filtered.rows[i]["Faixa de Tamanho"] \in Range(SizeLabels)
               /\ df_filtered.rows[i]["Faixa_Preco"] \in Range(PriceLabels)
        /\ TotalCount(contagem_por_tamanho) = Len(df_filtered.rows)
        /\ TotalCount(contagem) = Len(df_filtered.rows)

\* C5: the price-per-area KPI is sum(Valor) / sum(Area) when sum(Area) is
\* not zero and 0 when it is zero, and no division by zero is made.
C5_PricePerArea ==
    Shown =>
        /\ metrics[1].preco_medio_m2.den # 0
        /\ SumOf(df_filtered, "Area") # 0
               => metrics[1].preco_medio_m2.num * SumOf(df_filtered, "Area")
                      = SumOf(df_filtered, "Valor")
                            * metrics[1].preco_medio_m2.den
        /\ SumOf(df_filtered, "Area") = 0
               => metrics[1].preco_medio_m2.num = 0

C5_Witness ==
    Shown /\ SumOf(df_filtered, "Area") = 0 /\ SumOf(df_filtered, "Valor") = 0
          /\ metrics[1].preco_medio_m2.num = 0

\* C6: the export holds exactly the fields of the loaded listings, and
\* parsing it back gives the listings of the filtered set.
C6_ExportRoundTrip ==
    csv # <<>> =>
        /\ csv[1].header = BaseColumns
        /\ ReadCsv(csv[1]) = Listings(df_filtered)

SuiteValues == {df_filtered.rows[i].Suites : i \in 1..Len(df_filtered.rows)}

\* C7: for a non-empty filtered set the suite comparison is made exactly
\* when the set has a listing with Suites = 1 and one with Suites = 0;
\* otherwise the insufficient-data message is shown; no mean is taken over
\* an empty group.
C7_SuiteComparison ==
    Shown =>
        /\ (dados # <<>>) <=> (1 \in SuiteValues /\ 0 \in SuiteValues)
        /\ (dados = <<>>) <=> (InfoSuite \in messages)
        /\ dados # <<>> =>
               /\ ~IsNaN(dados[1].media_com_suite)
               /\ ~IsNaN(dados[1].media_sem_suite)
               /\ dados[1].media_com_suite
                      = Mean(ValoresOnde(df_filtered, "Suites", 1))
               /\ dados[1].media_sem_suite
                      = Mean(ValoresOnde(df_filtered, "Suites", 0))

C7_Witness ==
    Shown /\ SuiteValues = {1} /\ dados = <<>> /\ InfoSuite \in messages

\* the mean price of neighbourhood b over the filtered set, as an item
MeanOfBairro(b) == Group(b, ValoresOnde(df_filtered, "Bairro", b))

Less(a, b) == a.sum * b.n < b.sum * a.n

Ranked == {bairros_media[k].key : k \in 1..Len(bairros_media)}

\* what C8 says apart from the order of the list
RankingContent ==
    /\ (bairros_media # <<>>)
           <=> Cardinality(Unique(df_filtered, "Bairro")) > 1
    /\ (bairros_media = <<>>) <=> (InfoRanking \in messages)
    /\ bairros_media # <<>> =>
           /\ Len(bairros_media)
                  = (IF Cardinality(Unique(df_filtered, "Bairro")) <= TopN
                     THEN Cardinality(Unique(df_filtered, "Bairro"))
                     ELSE TopN)
           /\ Cardinality(Ranked) = Len(bairros_media)
           /\ \A k \in 1..Len(bairros_media) :
                  /\ bairros_media[k].key \in Unique(df_filtered, "Bairro")
                  /\ bairros_media[k] = MeanOfBairro(bairros_media[k].key)
           /\ \A b \in Unique(df_filtered, "Bairro") \ Ranked :
                  \A k \in 1..Len(bairros_media) :
                      Leq(MeanOfBairro(b), bairros_media[k])

\* C8 as claimed: the ranking is made exactly when there is more than one
\* neighbourhood, holds the (at most) 10 neighbourhoods of highest mean
\* price, and lists them in descending order of mean price.
C8_RankingDescending ==
    Shown =>
        /\ RankingContent
        /\ \A k \in 1..(Len(bairros_media) - 1) :
               Leq(bairros_media[k + 1], bairros_media[k])

\* C8 amended: as claimed, but the list is in ascending order of mean price,
\* the neighbourhood of highest mean price last.
C8_RankingAscending ==
    Shown =>
        /\ RankingContent
        /\ \A k \in 1..(Len(bairros_media) - 1) :
               Leq(bairros_media[k], bairros_media[k + 1])

C8_Witness ==
    /\ Cardinality(Unique(df_filtered, "Bairro")) > TopN
    /\ Len(bairros_media) = TopN
    /\ Less(bairros_media[1], bairros_media[TopN])
    /\ \E b \in Unique(df_filtered, "Bairro") \ Ranked :
           Less(MeanOfBairro(b), bairros_media[TopN])

\* C9: filtering the filtered set again with the same criteria (the minimum
\* as clamped) gives the same set.
C9_FilterIdempotent ==
    Current(ApplyFilters(Prog([o0 |-> df_filtered, o1 |-> EmptyFrame], "o0"),
                         Criteria, min_valor, max_valor))
        = df_filtered

C9_Witness ==
    /\ min_entered > max_valor
    /\ 0 < Len(df_filtered.rows)
    /\ Len(df_filtered.rows) < Len(df.rows)
    /\ bairros # {}

\* C10: a render cycle leaves the cached table as it was, with the loaded
\* columns only, and its filtered set is the one the contract gives for the
\* table and the cycle's own criteria.
C10_TableUnchanged ==
    [][/\ df' = df
       /\ df'.columns = BaseColumns
       /\ \A i \in 1..Len(df'.rows) :
              DOMAIN df'.rows[i] = Range(BaseColumns)
       /\ Listings(df_filtered')
              = Expected(df, Widgets(bairros', min_entered', max_valor',
                                     quartos', possui_suite', vagas'),
                         min_valor', max_valor')]_vars

C10_Witness ==
    /\ "Faixa de Tamanho" \in Range(df_filtered.columns)
    /\ "Faixa_Preco" \in Range(df_filtered.columns)
    /\ bairros # {} /\ possui_suite # "Todos"
    /\ Len(df_filtered.rows) < Len(df.rows)
    /\ df.columns = BaseColumns

====
